---- MODULE Spec2Model ----
(***************************************************************************)
(* Model of setup.py, the packaging script of the typing distribution.     *)
(*                                                                         *)
(* The script is a straight-line module body:                              *)
(*   line 6      the version gate on sys.version_info                      *)
(*   lines 7-10  the diagnostic on sys.stderr and exit(1)                  *)
(*   lines 12-22 version, description, long_description                    *)
(*   line 24     package_dir = {2: 'python2', 3: '.'}[major]               *)
(*   lines 25-36 classifiers                                               *)
(*   lines 38-49 the call of setuptools.setup                              *)
(* The initial state is the one after the imports of lines 3-4 succeeded;  *)
(* the interpreter's version tuple and the behaviour of setuptools.setup   *)
(* are the inputs.                                                         *)
(***************************************************************************)
EXTENDS Integers, Sequences, FiniteSets, TLC

VARIABLES version_info, pc, stderr, package_dir, setup_calls, raised,
          exit_status

vars == <<version_info, pc, stderr, package_dir, setup_calls, raised,
          exit_status>>

(* ---------------------------- bounds ----------------------------------- *)
MaxMajor == 4
MaxMinor == 7
MaxMicro == 1
MaxSerial == 1
MaxExitCode == 2

(* sys.version_info.releaselevel *)
ReleaseLevels == {"alpha", "beta", "candidate", "final"}

(* sys.version_info: (major, minor, micro, releaselevel, serial) *)
VersionInfos ==
    { <<ma, mi, mc, rl, se>> : ma \in 0..MaxMajor, mi \in 0..MaxMinor,
                               mc \in 0..MaxMicro, rl \in ReleaseLevels,
                               se \in 0..MaxSerial }

(* ------------------------ tuple comparison ----------------------------- *)
MinOf(S) == CHOOSE x \in S : \A y \in S : x <= y

(* mutant: an equal prefix compares as equal, not as shorter-is-less *)
TupleLess_truncating(a, b) ==
    LET n == IF Len(a) < Len(b) THEN Len(a) ELSE Len(b)
        d == { i \in 1..n : a[i] # b[i] }
    IN  IF d = {} THEN FALSE ELSE a[MinOf(d)] < b[MinOf(d)]

(* Python's a < b on tuples: the first differing position decides; when    *)
(* one tuple is a prefix of the other, the shorter one is the lesser.      *)
TupleLess(a, b) ==
    LET n == IF Len(a) < Len(b) THEN Len(a) ELSE Len(b)
        d == { i \in 1..n : a[i] # b[i] }
    IN  IF d = {} THEN Len(a) < Len(b) ELSE a[MinOf(d)] < b[MinOf(d)]

(* mutant: the 3.x range is not tested *)
VersionGate_only2(v) == TupleLess(v, <<2, 7, 0>>)

(* line 6: the condition under which the script refuses to run *)
VersionGate(v) ==
    \/ TupleLess(v, <<2, 7, 0>>)
    \/ (TupleLess(<<3>>, v) /\ TupleLess(v, <<3, 2, 0>>))

(* lines 7-9: the text written to sys.stderr *)
Diagnostic ==
    "ERROR: You need either Python2 2.7 or later or Python3 3.2 or later to install the typing package.\n"

(* ---------------------------- metadata --------------------------------- *)
version_short == "0.0.1"

version == "0.0.1.dev1"

description == "Type annotations for Python"

(* the literal of lines 14-22, split at its newlines *)
long_description_literal ==
    << "",
       "Typing -- Type annotations for Python",
       "",
       "Typing is intended as a standard notation for Python function and variable type",
       "annotations. The notation can be used for documenting code in a concise,",
       "standard format, and it has been designed to also be used by static and runtime",
       "type checkers, static analyzers, IDEs and other tools. The typing module",
       "originates from the mypy optional static type checker for Python.",
       "" >>

(* str.lstrip on the line-split text: leading empty lines go away *)
RECURSIVE lstrip(_)
lstrip(lines) ==
    IF lines = <<>> THEN <<>>
    ELSE IF Head(lines) = "" THEN lstrip(Tail(lines)) ELSE lines

long_description == lstrip(long_description_literal)

classifiers ==
    << "Development Status :: 2 - Pre-Alpha",
       "Environment :: Console",
       "Intended Audience :: Developers",
       "License :: OSI Approved :: MIT License",
       "Operating System :: POSIX",
       "Programming Language :: Python :: 2.7",
       "Programming Language :: Python :: 3.2",
       "Programming Language :: Python :: 3.3",
       "Programming Language :: Python :: 3.4",
       "Topic :: Software Development" >>

(* mutant: the two directories are swapped *)
PackageDirMap_swapped == (2 :> ".") @@ (3 :> "python2")

(* line 24: the dict literal *)
PackageDirMap == (2 :> "python2") @@ (3 :> ".")

(* mutant: dict.get with a default instead of subscription *)
SelectDir_defaulting(major) ==
    IF major \in DOMAIN PackageDirMap
    THEN [ok |-> TRUE, dir |-> PackageDirMap[major]]
    ELSE [ok |-> TRUE, dir |-> "."]

(* line 24: the subscription; an unlisted key raises KeyError *)
SelectDir(major) ==
    IF major \in DOMAIN PackageDirMap
    THEN [ok |-> TRUE, dir |-> PackageDirMap[major]]
    ELSE [ok |-> FALSE, dir |-> "KeyError"]

(* mutant: the directory mapping is hard-wired to the Python 3 layout *)
SetupRecord_fixed_dir(dir) ==
    [ name |-> "typing", version |-> version, description |-> description,
      long_description |-> long_description, author |-> "Jukka Lehtosalo",
      author_email |-> "jukka.lehtosalo@iki.fi",
      url |-> "http://www.mypy-lang.org/", license |-> "MIT License",
      platforms |-> <<"POSIX">>, package_dir |-> ("" :> "."),
      py_modules |-> <<"typing">>, classifiers |-> classifiers ]

(* lines 38-49: the keyword arguments of the setup call *)
SetupRecord(dir) ==
    [ name |-> "typing", version |-> version, description |-> description,
      long_description |-> long_description, author |-> "Jukka Lehtosalo",
      author_email |-> "jukka.lehtosalo@iki.fi",
      url |-> "http://www.mypy-lang.org/", license |-> "MIT License",
      platforms |-> <<"POSIX">>, package_dir |-> ("" :> dir),
      py_modules |-> <<"typing">>, classifiers |-> classifiers ]

(* ------------------------ process outcome ------------------------------ *)
Unbound == "<unbound>"

NoException == [type |-> "None", arg |-> 0, origin |-> "none"]

(* what the call of setuptools.setup can do: return, raise SystemExit with *)
(* a code, or raise another exception                                      *)
ToolchainResults ==
    {[type |-> "None", arg |-> 0]}
    \cup {[type |-> "SystemExit", arg |-> c] : c \in 0..MaxExitCode}
    \cup {[type |-> "Exception", arg |-> 0]}

(* the interpreter's exit status for a module body that ended with exc:    *)
(* 0 at a normal end, the code of a SystemExit, 1 for an uncaught error    *)
ExitStatus(exc) ==
    IF exc.type = "None" THEN 0
    ELSE IF exc.type = "SystemExit" THEN exc.arg
    ELSE 1

(* ----------------------------- actions --------------------------------- *)
Init ==
    /\ version_info \in VersionInfos
    /\ pc = "gate"
    /\ stderr = <<>>
    /\ package_dir = Unbound
    /\ setup_calls = <<>>
    /\ raised = NoException
    /\ exit_status = <<>>

(* lines 6-9: the gate holds; the diagnostic is written *)
GateReject ==
    /\ pc = "gate"
    /\ VersionGate(version_info)
    /\ stderr' = Append(stderr, Diagnostic)
    /\ pc' = "exit_call"
    /\ UNCHANGED <<version_info, package_dir, setup_calls, raised, exit_status>>

(* mutant: the exit call is missing and the script runs on *)
ExitCall_falls_through ==
    /\ pc = "exit_call"
    /\ pc' = "lookup"
    /\ UNCHANGED <<version_info, stderr, package_dir, setup_calls, raised,
                   exit_status>>

(* line 10: exit(1) raises SystemExit(1), which nothing catches *)
ExitCall ==
    /\ pc = "exit_call"
    /\ raised' = [type |-> "SystemExit", arg |-> 1, origin |-> "gate"]
    /\ exit_status' = <<ExitStatus(raised')>>
    /\ pc' = "terminated"
    /\ UNCHANGED <<version_info, stderr, package_dir, setup_calls>>

(* line 6 false, lines 12-22: the three string assignments *)
GatePass ==
    /\ pc = "gate"
    /\ ~VersionGate(version_info)
    /\ pc' = "lookup"
    /\ UNCHANGED <<version_info, stderr, package_dir, setup_calls, raised,
                   exit_status>>

(* lines 24-36: the key is listed; package_dir and classifiers are bound *)
LookupOk ==
    /\ pc = "lookup"
    /\ SelectDir(version_info[1]).ok
    /\ package_dir' = SelectDir(version_info[1]).dir
    /\ pc' = "setup"
    /\ UNCHANGED <<version_info, stderr, setup_calls, raised, exit_status>>

(* line 24: the key is not listed; KeyError ends the script *)
LookupKeyError ==
    /\ pc = "lookup"
    /\ ~SelectDir(version_info[1]).ok
    /\ raised' = [type |-> "KeyError", arg |-> version_info[1],
                  origin |-> "lookup"]
    /\ exit_status' = <<ExitStatus(raised')>>
    /\ pc' = "terminated"
    /\ UNCHANGED <<version_info, stderr, package_dir, setup_calls>>

(* lines 38-49: control enters setuptools.setup with the record *)
SetupCall ==
    /\ pc = "setup"
    /\ setup_calls' = Append(setup_calls, SetupRecord(package_dir))
    /\ pc' = "in_setup"
    /\ UNCHANGED <<version_info, stderr, package_dir, raised, exit_status>>

(* line 49: setup returns or raises; the module body ends either way *)
SetupReturn ==
    /\ pc = "in_setup"
    /\ \E r \in ToolchainResults :
          /\ raised' = [type |-> r.type, arg |-> r.arg,
                        origin |-> IF r.type = "None" THEN "none"
                                   ELSE "toolchain"]
          /\ exit_status' = <<ExitStatus(r)>>
    /\ pc' = "terminated"
    /\ UNCHANGED <<version_info, stderr, package_dir, setup_calls>>

Next ==
    \/ GateReject
    \/ ExitCall
    \/ GatePass
    \/ LookupOk
    \/ LookupKeyError
    \/ SetupCall
    \/ SetupReturn

Spec == Init /\ [][Next]_vars

(* the script runs to completion: no step waits on anything *)
FairSpec == Spec /\ WF_vars(Next)

(* ------------------------- claim vocabulary ---------------------------- *)
Major == version_info[1]
Minor == version_info[2]
Micro == version_info[3]

Below270 == Major < 2 \/ (Major = 2 /\ Minor < 7)
Is3xBelow320 == Major = 3 /\ Minor < 2
Is2xFrom270 == Major = 2 /\ Minor >= 7
AtOrAbove320 == Major > 3 \/ (Major = 3 /\ Minor >= 2)

GateExit == [type |-> "SystemExit", arg |-> 1, origin |-> "gate"]

(* C1: for every version below 2.7.0 or 3.x below 3.2.0, the script writes *)
(* the diagnostic to stderr and then terminates with exit status 1: the    *)
(* run never leaves the gate's branch, the diagnostic is on stderr before  *)
(* the exit is made, and the run does end with SystemExit(1), status 1.    *)
C1_UnsupportedVersionExits1 ==
    /\ []((Below270 \/ Is3xBelow320) =>
            /\ pc \in {"gate", "exit_call", "terminated"}
            /\ (pc = "gate" => stderr = <<>> /\ exit_status = <<>>)
            /\ (pc = "exit_call" =>
                    stderr = <<Diagnostic>> /\ exit_status = <<>>)
            /\ (pc = "terminated" =>
                    /\ stderr = <<Diagnostic>>
                    /\ raised = GateExit
                    /\ exit_status = <<1>>))
    /\ ((Below270 \/ Is3xBelow320) ~>
            (pc = "terminated" /\ stderr = <<Diagnostic>>
                /\ exit_status = <<1>>))

C1_Witness ==
    /\ Is3xBelow320
    /\ Minor = 1
    /\ pc = "terminated"
    /\ stderr = <<Diagnostic>>
    /\ exit_status = <<1>>

(* C2 (as claimed): for every version at or above 3.2.0 the script passes  *)
(* the gate, selects the directory of key 3 ('.') and reaches the setup    *)
(* call.                                                                   *)
C2_AtOrAbove320SelectsKey3 ==
    AtOrAbove320 =>
        /\ stderr = <<>>
        /\ pc # "exit_call"
        /\ raised.type # "KeyError"
        /\ (pc \in {"setup", "in_setup"} => package_dir = PackageDirMap[3])
        /\ (pc = "terminated" => Len(setup_calls) = 1)

(* C3 (as claimed): every execution that gets past the gate runs on major  *)
(* version 2 or 3, so the lookup error is unreachable in a full run.       *)
C3_GateRestrictsMajorTo2Or3 ==
    /\ (pc \notin {"gate", "exit_call"} /\ stderr = <<>> =>
            Major \in {2, 3})
    /\ raised.type # "KeyError"

(* C4: for every version at or above 2.7.0 and below 3.0 the script passes *)
(* the gate, selects 'python2' and hands setup a record whose package_dir  *)
(* is {'': 'python2'}.                                                     *)
C4_Python27SelectsPython2 ==
    Is2xFrom270 =>
        /\ stderr = <<>>
        /\ pc # "exit_call"
        /\ raised.origin \notin {"gate", "lookup"}
        /\ (pc \in {"setup", "in_setup", "terminated"} =>
                package_dir = "python2")
        /\ (pc \in {"in_setup", "terminated"} =>
                /\ Len(setup_calls) = 1
                /\ setup_calls[1].package_dir = ("" :> "python2"))

C4_Witness ==
    /\ Is2xFrom270
    /\ pc = "in_setup"
    /\ Len(setup_calls) = 1
    /\ package_dir = "python2"

(* C5 (as claimed): every execution ends either by the gate's exit with    *)
(* status 1, or after the packaging call was made, with the call's outcome *)
(* as the process outcome; there is no third way to end.                   *)
C5_TwoWaysToEnd ==
    pc = "terminated" =>
        \/ /\ raised = GateExit
           /\ exit_status = <<1>>
           /\ setup_calls = <<>>
        \/ /\ Len(setup_calls) = 1
           /\ raised.origin \in {"none", "toolchain"}
           /\ exit_status = <<ExitStatus(raised)>>

(* C6: in every execution that passes the gate and in which the directory  *)
(* selection succeeds, setup is invoked exactly once, with the record the  *)
(* script assembled: package_dir[''] is the selected directory and         *)
(* py_modules is ['typing'].                                               *)
C6_SetupInvokedOnceWithRecord ==
    /\ Len(setup_calls) <= 1
    /\ (pc \in {"gate", "exit_call", "lookup", "setup"} => setup_calls = <<>>)
    /\ (package_dir # Unbound /\ pc \in {"in_setup", "terminated"} =>
            /\ Len(setup_calls) = 1
            /\ DOMAIN setup_calls[1].package_dir = {""}
            /\ setup_calls[1].package_dir[""] = package_dir
            /\ package_dir = (IF Major = 2 THEN "python2" ELSE ".")
            /\ setup_calls[1].py_modules = <<"typing">>)

C6_Witness ==
    /\ pc = "terminated"
    /\ Major = 2
    /\ Len(setup_calls) = 1
    /\ setup_calls[1].package_dir[""] = "python2"

(* C7: every record passed to setup has name 'typing', version             *)
(* '0.0.1.dev1' and license 'MIT License', whatever the version and the    *)
(* selected directory.                                                     *)
C7_FixedLiterals ==
    \A i \in 1..Len(setup_calls) :
        /\ setup_calls[i].name = "typing"
        /\ setup_calls[i].version = "0.0.1.dev1"
        /\ setup_calls[i].license = "MIT License"

C7_Witness ==
    /\ Len(setup_calls) = 1
    /\ package_dir = "python2"
    /\ version_info[4] = "beta"

(* C8: directory selection for a major version other than 2 or 3 fails     *)
(* with a lookup error: no directory is ever bound (no default), and setup *)
(* is never invoked afterwards.                                            *)
C8_UnlistedMajorLookupError ==
    /\ \A m \in 0..MaxMajor : m \notin {2, 3} => ~SelectDir(m).ok
    /\ (Major \notin {2, 3} =>
            /\ package_dir = Unbound
            /\ setup_calls = <<>>
            /\ pc \notin {"setup", "in_setup"}
            /\ (pc = "terminated" /\ stderr = <<>> =>
                    /\ raised = [type |-> "KeyError", arg |-> Major,
                                 origin |-> "lookup"]
                    /\ exit_status = <<1>>))

C8_Witness ==
    /\ Major \notin {2, 3}
    /\ pc = "terminated"
    /\ raised.type = "KeyError"
    /\ setup_calls = <<>>

C10_DecisionIgnoresReleaseLevel ==
    pc # "gate" =>
        LET rejected == stderr # <<>>
            triple == <<Major, Minor, Micro>>
        IN  /\ \A w \in VersionInfos :
                  <<w[1], w[2], w[3]>> = triple =>
                      (VersionGate(w) <=> rejected)
            /\ (triple = <<2, 7, 0>> => ~rejected)
            /\ (triple = <<3, 2, 0>> => ~rejected)
            /\ (triple = <<3, 0, 0>> => rejected)
            /\ TupleLess(<<3>>, <<3, 0, 0, "alpha", 0>>)
            /\ ~TupleLess(<<3, 2, 0, "alpha", 0>>, <<3, 2, 0>>)

C10_Witness ==
    /\ <<Major, Minor, Micro>> = <<3, 0, 0>>
    /\ version_info[4] = "alpha"
    /\ pc = "exit_call"
    /\ stderr = <<Diagnostic>>

====
